---- MODULE Spec2Model ----
(***************************************************************************)
(* Metropolis Monte Carlo for the Gaussian system (code/mc.py).            *)
(*                                                                         *)
(* Reals are modelled on an integer grid: the state x, the step size h     *)
(* and beta are integers, so H and delta_H are exact.  np.exp returns a    *)
(* fixed-point number with One standing for 1.0; it saturates to 0 for     *)
(* very negative arguments (underflow) and to Inf for very positive ones   *)
(* (overflow), as the floating point exponential does.  The process-wide   *)
(* generator np.random is a nondeterministic choice of each draw, and      *)
(* `draws` logs which generator call consumed each draw.                   *)
(***************************************************************************)
EXTENDS Integers, Sequences, FiniteSets

VARIABLES argv, pc, x, i, file, draws, hist

vars == <<argv, pc, x, i, file, draws, hist>>

(* ---- bounds of the model ---- *)
MaxX0 == 1
MaxH == 2
MaxBeta == 1
MaxN == 2
MaxNZeroStep == 5

(* ---- fixed-point numbers ---- *)
One == 1000
Inf == 1000000

(* Marker for "np.random.random() was not called in this step". *)
NoDraw == -1

(* ---- code/mc.py ---- *)

H(y) == y * y

delta_H(x_old, x_new) == H(x_new) - H(x_old)

(* np.exp on the grid: floor(One * e^a), saturating on both sides. *)
np_exp(a) ==
    IF a > 6 THEN Inf
    ELSE IF a = 6 THEN 403428
    ELSE IF a = 5 THEN 148413
    ELSE IF a = 4 THEN 54598
    ELSE IF a = 3 THEN 20085
    ELSE IF a = 2 THEN 7389
    ELSE IF a = 1 THEN 2718
    ELSE IF a = 0 THEN One
    ELSE IF a = -1 THEN 367
    ELSE IF a = -2 THEN 135
    ELSE IF a = -3 THEN 49
    ELSE IF a = -4 THEN 18
    ELSE IF a = -5 THEN 6
    ELSE IF a = -6 THEN 2
    ELSE 0

(* np.random.uniform(low, high): low + (high - low) * r, r in [0, 1). *)
np_random_uniform(low, high) ==
    IF low <= high THEN low .. high ELSE high .. low

(* np.random.random(): a value of [0.0, 1.0), never 1.0. *)
np_random_random == {0, 135, 367, One - 1}

(* Variant: the perturbation is scaled by the full width 2h. *)
uniform_step_full_width(y, h) ==
    { y + 2 * h * U : U \in np_random_uniform(-h, h) }

uniform_step(y, h) == { y + h * U : U \in np_random_uniform(-h, h) }

(* Variant: the sign of the exponent is lost. *)
exp_plusbetadeltaH(y, x_new, beta) == np_exp(beta * delta_H(y, x_new))

(* Variant: the energy of the candidate instead of the energy difference. *)
exp_minusbetaH(y, x_new, beta) == np_exp((-beta) * H(x_new))

(* Variant: the displacement instead of the energy difference. *)
exp_minusbetadeltax(y, x_new, beta) == np_exp((-beta) * (x_new - y))

(* exp_minusbetadeltaH = np.exp(-beta * delta_H(x, x_new)) *)
exp_minusbetadeltaH(y, x_new, beta) == np_exp((-beta) * delta_H(y, x_new))

(* Variant: the comparison is reversed. *)
accepts_reversed(u, p) == p < u

(* Variant: the comparison is not strict. *)
accepts_or_equal(u, p) == u <= p

(* The elif test: np.random.random() < exp_minusbetadeltaH *)
accepts(u, p) == u < p

(* Variant: the acceptance draw is made first, then compared. *)
metropolis_draw_first(y, h, beta) ==
    UNION { LET p == exp_minusbetadeltaH(y, x_new, beta)
            IN  { IF p > One \/ accepts(u, p)
                  THEN [x |-> x_new, accept |-> 1, x_old |-> y,
                        x_new |-> x_new, p |-> p, u |-> u,
                        draws |-> <<"uniform", "random">>]
                  ELSE [x |-> y, accept |-> 0, x_old |-> y,
                        x_new |-> x_new, p |-> p, u |-> u,
                        draws |-> <<"uniform", "random">>]
                  : u \in np_random_random }
          : x_new \in uniform_step(y, h) }

(* One Metropolis update: the set of outcomes over all draws.  Besides    *)
(* the returned pair (x, accept) an outcome carries the locals of the     *)
(* call and the generator calls it made, in order.                        *)
metropolis(y, h, beta) ==
    UNION { LET p == exp_minusbetadeltaH(y, x_new, beta)
            IN  IF p > One
                THEN { [x |-> x_new, accept |-> 1, x_old |-> y,
                        x_new |-> x_new, p |-> p, u |-> NoDraw,
                        draws |-> <<"uniform">>] }
                ELSE { IF accepts(u, p)
                       THEN [x |-> x_new, accept |-> 1, x_old |-> y,
                             x_new |-> x_new, p |-> p, u |-> u,
                             draws |-> <<"uniform", "random">>]
                       ELSE [x |-> y, accept |-> 0, x_old |-> y,
                             x_new |-> x_new, p |-> p, u |-> u,
                             draws |-> <<"uniform", "random">>]
                       : u \in np_random_random }
          : x_new \in uniform_step(y, h) }

(* Variant: the upper end of the range is included. *)
range_len_inclusive(n) == IF n >= 0 THEN n + 1 ELSE 0

(* len(range(n)) *)
range_len(n) == IF n > 0 THEN n ELSE 0

HeaderRow == [kind |-> "header", cells |-> <<"x", "accept">>]
DataRow(y, accept) == [kind |-> "data", cells |-> <<y, accept>>]
StaleRow == [kind |-> "stale", cells |-> <<>>]

(* The command lines: argv.ok is FALSE when a positional argument is      *)
(* missing or fails its float()/int() conversion.                         *)
CommandLines ==
    [ok : BOOLEAN,
     x0 : (-MaxX0) .. MaxX0,
     beta : (-MaxBeta) .. MaxBeta,
     h : (-1) .. MaxH,
     num_iterations : (-1) .. MaxN]

(* The command lines with a zero step size, with longer runs. *)
CommandLinesZeroStep ==
    [ok : BOOLEAN,
     x0 : (-MaxX0) .. MaxX0,
     beta : (-MaxBeta) .. MaxBeta,
     h : {0},
     num_iterations : (-1) .. MaxNZeroStep]

Init ==
    /\ argv \in CommandLines
    /\ pc = "main"
    /\ x = argv.x0
    /\ i = 0
    /\ file \in { [exists |-> FALSE, opened |-> FALSE, rows |-> <<>>],
                  [exists |-> TRUE, opened |-> FALSE, rows |-> <<StaleRow>>] }
    /\ draws = <<>>
    /\ hist = <<>>

(* main: parse_args succeeds and run_mc is called. *)
main_parse ==
    /\ pc = "main"
    /\ argv.ok
    /\ pc' = "run_mc"
    /\ x' = argv.x0
    /\ UNCHANGED <<argv, i, file, draws, hist>>

(* main: parse_args prints the usage message and exits with status 2. *)
main_usage_error ==
    /\ pc = "main"
    /\ ~argv.ok
    /\ pc' = "usage_error"
    /\ UNCHANGED <<argv, x, i, file, draws, hist>>

(* run_mc: open(output_file, "w") and the header row. *)
run_mc_open ==
    /\ pc = "run_mc"
    /\ file' = [exists |-> TRUE, opened |-> TRUE, rows |-> <<HeaderRow>>]
    /\ i' = 0
    /\ pc' = "loop"
    /\ UNCHANGED <<argv, x, draws, hist>>

(* Variant: the result of metropolis is written but not kept in x. *)
run_mc_iteration_not_threaded ==
    /\ pc = "loop"
    /\ i < range_len(argv.num_iterations)
    /\ \E r \in metropolis(x, argv.h, argv.beta) :
          /\ file' = [file EXCEPT !.rows = Append(@, DataRow(r.x, r.accept))]
          /\ draws' = draws \o r.draws
          /\ hist' = Append(hist, r)
    /\ i' = i + 1
    /\ UNCHANGED <<argv, pc, x>>

(* run_mc: one iteration of the for loop. *)
run_mc_iteration ==
    /\ pc = "loop"
    /\ i < range_len(argv.num_iterations)
    /\ \E r \in metropolis(x, argv.h, argv.beta) :
          /\ x' = r.x
          /\ file' = [file EXCEPT !.rows = Append(@, DataRow(r.x, r.accept))]
          /\ draws' = draws \o r.draws
          /\ hist' = Append(hist, r)
    /\ i' = i + 1
    /\ UNCHANGED <<argv, pc>>

(* run_mc: the range is exhausted, the with block closes the file. *)
run_mc_return ==
    /\ pc = "loop"
    /\ i >= range_len(argv.num_iterations)
    /\ file' = [file EXCEPT !.opened = FALSE]
    /\ pc' = "done"
    /\ UNCHANGED <<argv, x, i, draws, hist>>

Next ==
    \/ main_parse
    \/ main_usage_error
    \/ run_mc_open
    \/ run_mc_iteration
    \/ run_mc_return

Spec == Init /\ [][Next]_vars

InitZeroStep ==
    /\ argv \in CommandLinesZeroStep
    /\ pc = "main"
    /\ x = argv.x0
    /\ i = 0
    /\ file \in { [exists |-> FALSE, opened |-> FALSE, rows |-> <<>>],
                  [exists |-> TRUE, opened |-> FALSE, rows |-> <<StaleRow>>] }
    /\ draws = <<>>
    /\ hist = <<>>

SpecZeroStep == InitZeroStep /\ [][Next]_vars

(* ---- properties ---- *)

(* The update records of the file: its rows after the first. *)
Records == [k \in 1 .. (Len(file.rows) - 1) |-> file.rows[k + 1]]

InRun == pc \in {"loop", "done"}

(* C1: a completed run with num_iterations = N >= 0 has written the single *)
(* header row followed by exactly N data rows, the k-th being the result   *)
(* of the k-th iteration; while the loop runs the file holds the header    *)
(* and one row per completed iteration; a well-formed command line with    *)
(* N >= 0 (N = 0 included) never ends in the error state.                  *)
C1_RecordCount ==
    (argv.ok /\ argv.num_iterations >= 0) =>
        /\ pc # "usage_error"
        /\ InRun =>
            /\ Len(file.rows) = 1 + i
            /\ i <= argv.num_iterations
            /\ file.rows[1].kind = "header"
            /\ \A k \in 1 .. i :
                  /\ Records[k].kind = "data"
                  /\ Records[k].cells = <<hist[k].x, hist[k].accept>>
        /\ pc = "done" => Len(Records) = argv.num_iterations

C1_Witness ==
    /\ pc = "done"
    /\ argv.num_iterations >= 2
    /\ Len(Records) = argv.num_iterations

(* C2: a run with a negative iteration count never completes normally    *)
(* (it ends in the error state), consumes no draw and performs no I/O:    *)
(* the file is never opened and keeps what it held before the run.        *)
C2_NegativeCountRejected ==
    (argv.ok /\ argv.num_iterations < 0) =>
        /\ pc # "done"
        /\ draws = <<>>
        /\ ~file.opened
        /\ \A k \in 1 .. Len(file.rows) : file.rows[k].kind = "stale"

(* C3: during a run the current state x is the state of the last record,  *)
(* or x0 when there is none, and the x_old of the step that produced      *)
(* record k is the state of record k - 1 (x0 for the first record).       *)
C3_StateContinuity ==
    InRun =>
        /\ x = IF Len(Records) = 0 THEN argv.x0
               ELSE Records[Len(Records)].cells[1]
        /\ \A k \in 1 .. Len(hist) :
              hist[k].x_old = IF k = 1 THEN argv.x0
                              ELSE Records[k - 1].cells[1]

C3_Witness ==
    /\ InRun
    /\ Len(hist) >= 2
    /\ hist[2].x_old # argv.x0
    /\ hist[2].x_old = Records[1].cells[1]

(* C4: with beta >= 0 a step whose candidate has H(x_new) <= H(x_old) is  *)
(* accepted, whatever the acceptance draw is.                             *)
C4_EnergyDecreasingAccepted ==
    \A k \in 1 .. Len(hist) :
        (argv.beta >= 0 /\ H(hist[k].x_new) <= H(hist[k].x_old)) =>
            /\ hist[k].accept = 1
            /\ hist[k].x = hist[k].x_new

C4_Witness ==
    \E k \in 1 .. Len(hist) :
        /\ argv.beta > 0
        /\ H(hist[k].x_new) <= H(hist[k].x_old)
        /\ hist[k].x_new # hist[k].x_old
        /\ hist[k].u = One - 1
        /\ hist[k].accept = 1

(* C5: with beta = 0 every record has flag 1 and carries the candidate    *)
(* proposed in its step.                                                  *)
C5_BetaZeroAcceptsAll ==
    argv.beta = 0 =>
        \A k \in 1 .. Len(hist) :
            /\ Records[k].cells = <<hist[k].x_new, 1>>
            /\ hist[k].accept = 1

C5_Witness ==
    /\ argv.beta = 0
    /\ pc = "done"
    /\ Len(hist) >= 2
    /\ \E k \in 1 .. Len(hist) :
          /\ H(hist[k].x_new) > H(hist[k].x_old)
          /\ hist[k].u = One - 1
          /\ Records[k].cells = <<hist[k].x_new, 1>>

(* C6: with h = 0 every record has state x0 and flag 1, for every x0,     *)
(* beta, N and draws.                                                     *)
C6_ZeroStepFreezes ==
    argv.h = 0 =>
        /\ \A k \in 1 .. Len(Records) : Records[k].cells = <<argv.x0, 1>>
        /\ InRun => x = argv.x0

C6_Witness ==
    /\ argv.h = 0
    /\ argv.x0 = 0
    /\ argv.beta = 1
    /\ argv.num_iterations = 5
    /\ pc = "done"
    /\ Len(Records) = 5
    /\ \E k \in 1 .. Len(hist) : hist[k].u = One - 1

C8_FlagDeterminedByEnergy ==
    \A j, k \in 1 .. Len(hist) :
        delta_H(hist[j].x_old, hist[j].x_new)
            = delta_H(hist[k].x_old, hist[k].x_new)
        => hist[j].accept = hist[k].accept

(* The flag as a function of beta, the energy difference and the          *)
(* acceptance draw (NoDraw when the step made none).                      *)
C8_Flag(beta, dH, u) ==
    IF np_exp((-beta) * dH) > One THEN 1
    ELSE IF u # NoDraw /\ u < np_exp((-beta) * dH) THEN 1
    ELSE 0

(* C8 amended: the accept flag of a record is a function of beta, the     *)
(* energy difference of its step and the acceptance draw of its step, so  *)
(* two steps with the same energy difference and the same acceptance draw *)
(* (or both without one) have the same flag.                              *)
C8_FlagDeterminedByEnergyAndDraw ==
    /\ \A k \in 1 .. Len(hist) :
          hist[k].accept =
              C8_Flag(argv.beta, delta_H(hist[k].x_old, hist[k].x_new),
                      hist[k].u)
    /\ \A j, k \in 1 .. Len(hist) :
          ( /\ delta_H(hist[j].x_old, hist[j].x_new)
                 = delta_H(hist[k].x_old, hist[k].x_new)
            /\ hist[j].u = hist[k].u )
          => hist[j].accept = hist[k].accept

C8_Witness ==
    \E j, k \in 1 .. Len(hist) :
        /\ j # k
        /\ delta_H(hist[j].x_old, hist[j].x_new)
             = delta_H(hist[k].x_old, hist[k].x_new)
        /\ hist[j].u = hist[k].u
        /\ hist[j].u # NoDraw
        /\ hist[j].p < One
        /\ hist[j].accept = hist[k].accept

(* The generator calls of a sequence of steps: one proposal draw, then    *)
(* one acceptance draw unless the probability is above 1.                 *)
RECURSIVE C9_ExpectedDraws(_)
C9_ExpectedDraws(steps) ==
    IF steps = <<>> THEN <<>>
    ELSE (IF Head(steps).p > One THEN <<"uniform">>
          ELSE <<"uniform", "random">>)
         \o C9_ExpectedDraws(Tail(steps))

(* C9: every step consumes one proposal draw first and then an acceptance *)
(* draw iff its probability is not above 1; after k steps the number of   *)
(* draws is k plus the number of steps with probability <= 1.             *)
C9_DrawConsumption ==
    /\ draws = C9_ExpectedDraws(hist)
    /\ Len(draws) =
          Len(hist) + Cardinality({k \in 1 .. Len(hist) : hist[k].p <= One})
    /\ \A k \in 1 .. Len(hist) :
          /\ hist[k].p = np_exp((-argv.beta)
                                 * delta_H(hist[k].x_old, hist[k].x_new))
          /\ (hist[k].u = NoDraw) <=> (hist[k].p > One)
          /\ hist[k].p > One => hist[k].accept = 1

C9_Witness ==
    /\ Len(hist) = 2
    /\ hist[1].p > One
    /\ hist[2].p < One
    /\ hist[2].accept = 0
    /\ draws = <<"uniform", "uniform", "random">>

(* C10: with p = exp(-beta * delta_H(x, candidate)) and acceptance draw   *)
(* u, a step returns (candidate, 1) exactly when p > 1 or u < p, and      *)
(* (x, 0) otherwise; a record with flag 0 carries the state held at the   *)
(* start of its step.                                                     *)
C10_StepResult ==
    \A k \in 1 .. Len(hist) :
        LET r == hist[k]
            p == np_exp((-argv.beta) * delta_H(r.x_old, r.x_new))
        IN  /\ r.p = p
            /\ IF p > One \/ (r.u \in 0 .. (One - 1) /\ r.u < p)
               THEN r.x = r.x_new /\ r.accept = 1
               ELSE r.x = r.x_old /\ r.accept = 0
            /\ r.accept \in {0, 1}
            /\ Records[k].cells = <<r.x, r.accept>>
            /\ r.accept = 0 => Records[k].cells[1] = r.x_old

C10_Witness ==
    \E k \in 1 .. Len(hist) :
        /\ hist[k].u = hist[k].p
        /\ hist[k].accept = 0
        /\ hist[k].x_new # hist[k].x_old
        /\ Records[k].cells = <<hist[k].x_old, 0>>

====
